---- MODULE Spec2Model ----
(***************************************************************************)
(* Model of start.py, the self-bootstrapping launcher of the MatAnyone     *)
(* Gradio demo: main() relaunches itself inside the virtual environment,   *)
(* checks the interpreter version and the PyTorch backend, installs the    *)
(* demo's requirements and runs app.py.                                    *)
(***************************************************************************)
EXTENDS Integers, Sequences, FiniteSets, TLC

VARIABLES
    platform,        \* sys.platform
    venvExists,      \* os.path.isdir(VENV_DIR)
    venvIs311,       \* the environment's interpreter is Python 3.11
    torchDisk,       \* the backend as installed in the environment
    run,             \* number of the current invocation of start.py
    startExe,        \* the interpreter the invocation was started with
    venvAtStart,     \* isdir(VENV_DIR) when the invocation began
    startArgv,       \* sys.argv the invocation was started with
    sys_executable,  \* sys.executable of the current process
    sys_argv,        \* sys.argv of the current process
    torchLoaded,     \* sys.modules["torch"] of the current process
    pc,              \* position of the current process in main()
    args,            \* the namespace returned by parser.parse_args()
    i,               \* loop variable of the countdown
    launchCmd,       \* cmd handed to subprocess.run by launch_demo
    repairCmd,       \* command handed to subprocess.run by ensure_torch_with_cuda
    downstreamExit,  \* return code of app.py, -1 while there is none
    exitCode,        \* exit status of the launcher, -1 while it runs
    diag,            \* the fatal message printed, if any
    interruptedAt,   \* the blocking call a KeyboardInterrupt was raised in
    log,             \* external commands, sleeps and warnings, in order
    execMismatch     \* a replaced process reported another interpreter path

machine == <<platform, venvExists, venvIs311, torchDisk>>
invocation == <<run, startExe, venvAtStart, startArgv>>
process == <<sys_executable, sys_argv, torchLoaded>>
outcome == <<exitCode, diag, interruptedAt>>
vars == <<platform, venvExists, venvIs311, torchDisk, run, startExe,
          venvAtStart, startArgv, sys_executable, sys_argv, torchLoaded, pc, args, i,
          launchCmd, repairCmd, downstreamExit, exitCode, diag, interruptedAt,
          log, execMismatch>>

\* ---- bounds ----
MaxRuns == 2
MaxExec == 2

\* ---- paths ----
Platforms == {"win32", "linux", "darwin"}

\* get_venv_python(): abspath(join(VENV_DIR, ...)) for the invocation directory
get_venv_python(plat) ==
    IF plat = "win32" THEN "C:\\proj\\.venv\\Scripts\\python.exe"
    ELSE "/proj/.venv/bin/python"

\* the interpreter the environment was created from
BasePython(plat) ==
    IF plat = "win32" THEN "C:\\Python311\\python.exe"
    ELSE "/usr/bin/python3.11"

\* another spelling of the environment's interpreter path
VenvAlias(plat) ==
    IF plat = "win32" THEN "c:\\PROJ\\.venv\\scripts\\PYTHON.EXE"
    ELSE "/proj/./.venv/bin/python"

\* os.path.abspath: collapses the "." component, absolute paths stay
abspath(p) ==
    IF p = "/proj/./.venv/bin/python" THEN "/proj/.venv/bin/python" ELSE p

\* os.path.normcase: lower case on Windows, the identity elsewhere
normcase(plat, p) ==
    IF plat # "win32" THEN p
    ELSE CASE p = "C:\\proj\\.venv\\Scripts\\python.exe" -> "c:\\proj\\.venv\\scripts\\python.exe"
           [] p = "c:\\PROJ\\.venv\\scripts\\PYTHON.EXE" -> "c:\\proj\\.venv\\scripts\\python.exe"
           [] p = "C:\\Python311\\python.exe" -> "c:\\python311\\python.exe"
           [] OTHER -> p

\* the guard of main() is false: the process runs the environment's interpreter
InVenvAs(plat, exe) ==
    normcase(plat, abspath(exe)) = normcase(plat, get_venv_python(plat))

\* the guard never asks for a relaunch
NeedsRelaunch_never(plat, exe) == FALSE

\* the guard compares with the relative path of the environment's interpreter
NeedsRelaunch_relative(plat, exe) == exe # ".venv/bin/python"

\* line 196: the guard of main() is true, the process has to relaunch
NeedsRelaunch(plat, exe) == ~InVenvAs(plat, exe)

Bootstrapped == InVenvAs(platform, sys_executable)

\* the interpreters an invocation may be started with
StartInterpreters(plat) == {BasePython(plat), get_venv_python(plat), VenvAlias(plat)}

\* ---- command line ----
OptionLike == {"--port", "--device", "--sam_model_type", "--mask_save",
               "--help", "-h", "--bogus"}
TakesValue == {"--port", "--device", "--sam_model_type"}

\* int(): the decimal strings of the model and their values
int == [tok \in {"0", "7860", "080"} |->
          CASE tok = "0" -> 0 [] tok = "7860" -> 7860 [] tok = "080" -> 80]

\* str() of an int
str(n) == ToString(n)

UnsetInt == [set |-> FALSE, val |-> 0]
UnsetStr == [set |-> FALSE, val |-> ""]
DefaultNamespace ==
    [port |-> UnsetInt, device |-> UnsetStr, sam_model_type |-> UnsetStr,
     mask_save |-> FALSE]

ParseError == [status |-> "error", ns |-> DefaultNamespace]
ParseHelp == [status |-> "help", ns |-> DefaultNamespace]

\* parser.parse_args() over the four arguments of lines 225-228 and -h/--help:
\* t the strings left, ns the namespace so far, extras whether a string was
\* left unrecognized
RECURSIVE parse_args(_, _, _)
parse_args(t, ns, extras) ==
    IF t = <<>> THEN
        IF extras THEN ParseError ELSE [status |-> "ok", ns |-> ns]
    ELSE LET h == Head(t) IN
        IF h \notin OptionLike THEN parse_args(Tail(t), ns, TRUE)
        ELSE IF h \in {"--help", "-h"} THEN ParseHelp
        ELSE IF h = "--mask_save" THEN
            parse_args(Tail(t), [ns EXCEPT !.mask_save = TRUE], extras)
        ELSE IF h \in TakesValue THEN
            IF Len(t) < 2 \/ t[2] \in OptionLike THEN ParseError
            ELSE IF h = "--port" THEN
                IF t[2] \in DOMAIN int
                THEN parse_args(Tail(Tail(t)),
                        [ns EXCEPT !.port = [set |-> TRUE, val |-> int[t[2]]]],
                        extras)
                ELSE ParseError
            ELSE IF h = "--device" THEN
                parse_args(Tail(Tail(t)),
                    [ns EXCEPT !.device = [set |-> TRUE, val |-> t[2]]], extras)
            ELSE
                parse_args(Tail(Tail(t)),
                    [ns EXCEPT !.sam_model_type = [set |-> TRUE, val |-> t[2]]],
                    extras)
        ELSE parse_args(Tail(t), ns, TRUE)

\* truth value of an optional int and of an optional str in an if statement
TruthyInt(v) == v.set /\ v.val # 0
TruthyStr(v) == v.set /\ v.val # ""

\* launch_demo, lines 168-180: the command of the downstream process
build_cmd(exe, a) ==
    <<exe, "app.py">>
    \o (IF TruthyInt(a.port) THEN <<"--port", str(a.port.val)>> ELSE <<>>)
    \o (IF TruthyStr(a.device) THEN <<"--device", a.device.val>> ELSE <<>>)
    \o (IF TruthyStr(a.sam_model_type)
        THEN <<"--sam_model_type", a.sam_model_type.val>> ELSE <<>>)
    \o (IF a.mask_save THEN <<"--mask_save">> ELSE <<>>)

\* the command lines the launcher is started with (sys.argv[1:])
CommandLines ==
    { <<>>,
      <<"--port", "7860", "--device", "cuda", "--mask_save">>,
      <<"--sam_model_type", "vit_h", "--port", "080">>,
      <<"--port", "0">>,
      <<"--device", "">>,
      <<"--port", "abc">>,
      <<"--bogus">>,
      <<"cuda", "--help">> }

\* ---- exits ----
\* status of a process that dies of an uncaught KeyboardInterrupt
UncaughtInterruptStatus(plat) == IF plat = "win32" THEN -1073741510 ELSE 130

NoDiag == [kind |-> "", code |-> -1]

\* sys.exit() without its argument
SysExitInt_noarg(n, kind) ==
    /\ pc' = "done"
    /\ exitCode' = 0
    /\ diag' = [kind |-> kind, code |-> -1]
    /\ interruptedAt' = interruptedAt

\* sys.exit(n) with an int
SysExitInt(n, kind) ==
    /\ pc' = "done"
    /\ exitCode' = n
    /\ diag' = [kind |-> kind, code |-> -1]
    /\ interruptedAt' = interruptedAt

\* sys.exit(e.returncode) after printing the message
SysExitStr_returncode(kind, c) ==
    /\ pc' = "done"
    /\ exitCode' = c
    /\ diag' = [kind |-> kind, code |-> c]
    /\ interruptedAt' = interruptedAt

\* the message is printed and sys.exit(0) is called
SysExitStr_zero(kind, c) ==
    /\ pc' = "done"
    /\ exitCode' = 0
    /\ diag' = [kind |-> kind, code |-> c]
    /\ interruptedAt' = interruptedAt

\* sys.exit(message): the message goes to stderr, the status is 1
SysExitStr(kind, c) ==
    /\ pc' = "done"
    /\ exitCode' = 1
    /\ diag' = [kind |-> kind, code |-> c]
    /\ interruptedAt' = interruptedAt

\* a KeyboardInterrupt no handler of start.py catches
UncaughtInterrupt(at) ==
    /\ pc' = "done"
    /\ exitCode' = UncaughtInterruptStatus(platform)
    /\ diag' = [kind |-> "KeyboardInterrupt", code |-> -1]
    /\ interruptedAt' = at

\* sys.exit(0) in a handler of KeyboardInterrupt
GracefulAbort(at) ==
    /\ pc' = "done"
    /\ exitCode' = 0
    /\ diag' = [kind |-> "interrupted by user", code |-> -1]
    /\ interruptedAt' = at

\* ---- the backend ----
AcceleratorState == {"Absent", "PresentNoAccel", "PresentAccelerated"}

\* return codes of python -m venv and of pip
ReturnCodes == {0, 1}

\* return codes of app.py
DownstreamCodes == {0, 1, 3}

\* no handler around the countdown
InterruptCaught_launch_only(at) == at = "launch"

\* the blocking calls that run under an except KeyboardInterrupt, lines 253, 270
InterruptCaught(at) == at \in {"countdown", "launch"}

\* a KeyboardInterrupt raised in the blocking call at
Interrupt(at) ==
    IF InterruptCaught(at) THEN GracefulAbort(at) ELSE UncaughtInterrupt(at)

\* the existence check is skipped
venv_already_exists_never(isdir) == FALSE

\* line 28: the directory is there, nothing is created
venv_already_exists(isdir) == isdir

\* subprocess.run without check=True
CalledProcessError_never(c) == FALSE

\* only return code 1 is taken for a failure
CalledProcessError_one_only(c) == c = 1

\* subprocess.run(check=True) raises CalledProcessError for this return code
CalledProcessError(c) == c # 0

\* the argument vector is rebuilt from the script name alone
execv_args_script_only(venv, argv) == <<venv, argv[1]>>

\* line 201: [venv_python_path] + sys.argv
execv_args(venv, argv) == <<venv>> \o argv

\* the version check lets any interpreter pass
version_ok_any(is311) == TRUE

\* line 95: (major, minor) == (3, 11)
version_ok(is311) == is311

\* the backend is reinstalled whatever the import finds
torch_ok_never(plat, state) == FALSE

\* lines 106-115: torch imports and, except on macOS, CUDA is available
torch_ok(plat, state) ==
    state # "Absent" /\ (plat = "darwin" \/ state = "PresentAccelerated")

\* the check of line 235 without its platform test
needs_countdown_always(plat, module) == module # "PresentAccelerated"

\* line 235: sys.platform != "darwin" and not torch.cuda.is_available()
needs_countdown(plat, module) ==
    plat # "darwin" /\ module # "PresentAccelerated"

\* the installer is run without looking for the file
manifest_present_always(isfile) == TRUE

\* line 146: os.path.isfile(req_file)
manifest_present(isfile) == isfile

\* range(5, 0, -1), line 249
CountdownStart == 5

Count(s, e) == Cardinality({k \in DOMAIN s : s[k] = e})

\* ---- initial state ----
Init ==
    /\ platform \in Platforms
    /\ venvExists \in BOOLEAN
    /\ venvIs311 \in (IF venvExists THEN BOOLEAN ELSE {FALSE})
    /\ torchDisk \in (IF venvExists THEN AcceleratorState ELSE {"Absent"})
    /\ run = 1
    /\ startExe \in StartInterpreters(platform)
    /\ (startExe # BasePython(platform)) => venvExists
    /\ venvAtStart = venvExists
    /\ sys_executable = startExe
    /\ sys_argv \in {<<"start.py">> \o c : c \in CommandLines}
    /\ startArgv = sys_argv
    /\ torchLoaded = "none"
    /\ pc = "start"
    /\ args = DefaultNamespace
    /\ i = 0
    /\ launchCmd = <<>>
    /\ repairCmd = <<>>
    /\ downstreamExit = -1
    /\ exitCode = -1
    /\ diag = NoDiag
    /\ interruptedAt = "none"
    /\ log = <<>>
    /\ execMismatch = FALSE

\* ---- main(), lines 192-206: the relaunch ----
main_guard ==
    /\ pc = "start"
    /\ pc' = IF NeedsRelaunch(platform, sys_executable)
             THEN "create_venv" ELSE "check_gpu"
    /\ UNCHANGED <<machine, invocation, process, args, i, launchCmd, repairCmd,
                   downstreamExit, outcome, log, execMismatch>>

create_venv_if_needed ==
    /\ pc = "create_venv"
    /\ UNCHANGED <<platform, torchDisk, invocation, process, args, i, launchCmd,
                   repairCmd, downstreamExit, execMismatch>>
    /\ \/ /\ venv_already_exists(venvExists)
          /\ pc' = "relaunch"
          /\ UNCHANGED <<venvExists, venvIs311, outcome, log>>
       \/ /\ ~venv_already_exists(venvExists)
          /\ \E pyOk \in BOOLEAN, which311 \in BOOLEAN :
               LET python_executable ==
                       IF platform = "win32" /\ pyOk THEN <<"py", "-3.11">>
                       ELSE IF which311 THEN <<"python3.11">>
                       ELSE <<>>
               IN  IF python_executable = <<>>
                   THEN /\ SysExitInt(1, "Could not find Python 3.11")
                        /\ log' = log \o <<"find_python311", "python311_not_found">>
                        /\ UNCHANGED <<venvExists, venvIs311>>
                   ELSE \E intr \in BOOLEAN, rc \in ReturnCodes :
                          IF intr
                          THEN /\ log' = log \o <<"find_python311", "venv_create">>
                               /\ venvExists' \in {venvExists, TRUE}
                               /\ venvIs311' = venvExists'
                               /\ Interrupt("venv_create")
                          ELSE /\ log' = log \o <<"find_python311", "venv_create">> \o
                                      (IF rc # 0 THEN <<"venv_create_failed">>
                                       ELSE <<>>)
                               /\ venvExists' \in (IF rc = 0 THEN {TRUE}
                                                   ELSE {venvExists, TRUE})
                               /\ venvIs311' = venvExists'
                               /\ IF CalledProcessError(rc)
                                  THEN SysExitInt(1, "Failed to create virtual environment")
                                  ELSE pc' = "relaunch" /\ UNCHANGED outcome

relaunch ==
    /\ pc = "relaunch"
    /\ UNCHANGED <<machine, invocation, args, i, launchCmd, repairCmd,
                   downstreamExit>>
    /\ \/ /\ Count(log, "execv") < MaxExec
          /\ \E exe \in {get_venv_python(platform), BasePython(platform)} :
               /\ sys_executable' = exe
               /\ execMismatch' = (execMismatch \/ exe # get_venv_python(platform))
          /\ sys_argv' = Tail(execv_args(get_venv_python(platform), sys_argv))
          /\ torchLoaded' = "none"
          /\ log' = Append(log, "execv")
          /\ pc' = "start"
          /\ UNCHANGED outcome
       \/ /\ SysExitInt(1, "Failed to relaunch script in virtual environment")
          /\ log' = Append(log, "execv_failed")
          /\ UNCHANGED <<process, execMismatch>>

\* ---- main(), lines 208-275: inside the environment ----
check_nvidia_gpu_early ==
    /\ pc = "check_gpu"
    /\ UNCHANGED <<machine, invocation, process, args, i, launchCmd, repairCmd,
                   downstreamExit, execMismatch>>
    /\ \/ /\ platform \notin {"win32", "linux"}
          /\ pc' = "upgrade_pip"
          /\ UNCHANGED <<outcome, log>>
       \/ /\ platform \in {"win32", "linux"}
          /\ \E smi \in BOOLEAN :
               IF smi
               THEN /\ pc' = "upgrade_pip"
                    /\ UNCHANGED <<outcome, log>>
               ELSE /\ log' = log \o <<"smi_warning", "sleep">>
                    /\ \E intr \in BOOLEAN :
                         IF intr THEN Interrupt("sleep")
                         ELSE pc' = "upgrade_pip" /\ UNCHANGED outcome

upgrade_pip ==
    /\ pc = "upgrade_pip"
    /\ UNCHANGED <<machine, invocation, process, args, i, launchCmd, repairCmd,
                   downstreamExit, execMismatch>>
    /\ \E intr \in BOOLEAN, rc \in ReturnCodes :
         IF intr
         THEN /\ log' = Append(log, "pip_upgrade")
              /\ Interrupt("pip_upgrade")
         ELSE /\ log' = log \o <<"pip_upgrade">> \o
                     (IF CalledProcessError(rc) THEN <<"pip_upgrade_warning">>
                      ELSE <<>>)
              /\ pc' = "check_version"
              /\ UNCHANGED outcome

ensure_python_version ==
    /\ pc = "check_version"
    /\ UNCHANGED <<machine, invocation, process, args, i, launchCmd, repairCmd,
                   downstreamExit, execMismatch>>
    /\ IF version_ok(venvIs311)
       THEN pc' = "parse_args" /\ UNCHANGED <<outcome, log>>
       ELSE /\ SysExitInt(1, "MatAnyone requires Python 3.11")
            /\ log' = Append(log, "version_error")

main_parse_args ==
    /\ pc = "parse_args"
    /\ UNCHANGED <<machine, invocation, process, i, launchCmd, repairCmd,
                   downstreamExit, log, execMismatch>>
    /\ LET r == parse_args(Tail(sys_argv), DefaultNamespace, FALSE)
       IN  CASE r.status = "ok" ->
                  /\ args' = r.ns
                  /\ pc' = "ensure_torch"
                  /\ UNCHANGED outcome
             [] r.status = "help" ->
                  /\ SysExitInt(0, "help")
                  /\ UNCHANGED args
             [] OTHER ->
                  /\ SysExitInt(2, "usage")
                  /\ UNCHANGED args

\* lines 106-119: what the import of torch and the CUDA query find
probe_event(state) ==
    CASE state = "Absent" -> "probe_absent"
      [] state = "PresentNoAccel" -> "probe_no_accel"
      [] OTHER -> "probe_accelerated"

\* the CUDA index is passed on every platform
repair_command_cuda_everywhere(plat, exe) ==
    <<exe, "-m", "pip", "install", "torch", "torchvision", "torchaudio",
      "--index-url", "https://download.pytorch.org/whl/cu121">>

\* lines 122-126: the repair command
repair_command(plat, exe) ==
    <<exe, "-m", "pip", "install", "torch", "torchvision", "torchaudio">>
    \o (IF plat # "darwin"
        THEN <<"--index-url", "https://download.pytorch.org/whl/cu121">>
        ELSE <<>>)

ensure_torch_with_cuda ==
    /\ pc = "ensure_torch"
    /\ UNCHANGED <<platform, venvExists, venvIs311, invocation, sys_executable,
                   sys_argv, args, i, launchCmd, downstreamExit, execMismatch>>
    /\ torchLoaded' = (IF torchDisk # "Absent" THEN torchDisk ELSE "none")
    /\ IF torch_ok(platform, torchDisk)
       THEN /\ pc' = "verify_torch"
            /\ log' = Append(log, probe_event(torchDisk))
            /\ UNCHANGED <<torchDisk, repairCmd, outcome>>
       ELSE /\ repairCmd' = repair_command(platform, sys_executable)
            /\ \E intr \in BOOLEAN, rc \in ReturnCodes :
                 IF intr
                 THEN /\ log' = log \o <<probe_event(torchDisk), "repair_install">>
                      /\ Interrupt("repair_install")
                      /\ UNCHANGED torchDisk
                 ELSE /\ log' = log \o <<probe_event(torchDisk), "repair_install">> \o
                             (IF rc # 0 THEN <<"repair_install_failed">>
                              ELSE <<>>)
                      /\ torchDisk' \in (IF rc = 0 THEN AcceleratorState
                                         ELSE {torchDisk})
                      /\ IF CalledProcessError(rc)
                         THEN SysExitStr("Failed to install PyTorch with CUDA support", -1)
                         ELSE pc' = "verify_torch" /\ UNCHANGED outcome

\* lines 232-247 and 257-259: the import and the check after the installation
verify_torch ==
    /\ pc = "verify_torch"
    /\ UNCHANGED <<machine, invocation, sys_executable, sys_argv, args,
                   launchCmd, repairCmd, downstreamExit, execMismatch>>
    /\ LET module == IF torchLoaded # "none" THEN torchLoaded
                     ELSE IF torchDisk # "Absent" THEN torchDisk
                     ELSE "none"
       IN  IF module = "none"
           THEN /\ SysExitStr("PyTorch could not be imported after installation", -1)
                /\ log' = Append(log, "import_error")
                /\ UNCHANGED <<torchLoaded, i>>
           ELSE /\ torchLoaded' = module
                /\ UNCHANGED outcome
                /\ IF needs_countdown(platform, module)
                   THEN /\ pc' = "countdown"
                        /\ i' = CountdownStart
                        /\ log' = Append(log, "cuda_warning")
                   ELSE /\ pc' = "install_requirements"
                        /\ i' = i
                        /\ log' = Append(log, "torch_verified")

\* lines 248-255: one iteration of the countdown
countdown ==
    /\ pc = "countdown"
    /\ UNCHANGED <<machine, invocation, process, args, launchCmd, repairCmd,
                   downstreamExit, execMismatch>>
    /\ \E intr \in BOOLEAN :
         IF intr
         THEN /\ Interrupt("countdown")
              /\ log' = Append(log, "countdown")
              /\ i' = i
         ELSE /\ i' = i - 1
              /\ UNCHANGED outcome
              /\ IF i = 1
                 THEN /\ pc' = "install_requirements"
                      /\ log' = log \o <<"countdown", "torch_verified">>
                 ELSE /\ pc' = "countdown"
                      /\ log' = Append(log, "countdown")

install_requirements ==
    /\ pc = "install_requirements"
    /\ UNCHANGED <<machine, invocation, process, args, i, launchCmd, repairCmd,
                   downstreamExit, execMismatch>>
    /\ \E isfile \in BOOLEAN :
         LET found == IF isfile THEN <<>> ELSE <<"manifest_absent">>
         IN  IF manifest_present(isfile)
             THEN \E intr \in BOOLEAN, rc \in ReturnCodes :
                    IF intr
                    THEN /\ log' = log \o found \o <<"manifest_install">>
                         /\ Interrupt("manifest_install")
                    ELSE IF CalledProcessError(rc)
                    THEN /\ log' = log \o found \o <<"manifest_install">> \o
                                (IF rc # 0 THEN <<"manifest_install_failed">>
                                 ELSE <<>>)
                         /\ SysExitStr("Failed to install dependencies from requirements.txt", -1)
                    ELSE /\ log' = log \o found \o <<"manifest_install">> \o
                                (IF rc # 0 THEN <<"manifest_install_failed">>
                                 ELSE <<>>) \o <<"requirements_done">>
                         /\ pc' = "check_ffmpeg"
                         /\ UNCHANGED outcome
             ELSE /\ log' = log \o found \o
                         <<"manifest_warning", "requirements_done">>
                  /\ pc' = "check_ffmpeg"
                  /\ UNCHANGED outcome

check_ffmpeg ==
    /\ pc = "check_ffmpeg"
    /\ UNCHANGED <<machine, invocation, process, args, i, launchCmd, repairCmd,
                   downstreamExit, outcome, execMismatch>>
    /\ \E which \in BOOLEAN :
         log' = (IF which THEN log ELSE Append(log, "ffmpeg_warning"))
    /\ pc' = "launch"

\* launch_demo under the handlers of lines 266-275
launch_demo ==
    /\ pc = "launch"
    /\ UNCHANGED <<machine, invocation, process, args, i, repairCmd,
                   execMismatch>>
    /\ \E chdir \in BOOLEAN :
         IF ~chdir
         THEN /\ SysExitInt(1, "An unexpected error occurred during demo execution")
              /\ log' = Append(log, "chdir_failed")
              /\ UNCHANGED <<launchCmd, downstreamExit>>
         ELSE /\ launchCmd' = build_cmd(sys_executable, args)
              /\ log' = Append(log, "launch")
              /\ \E intr \in BOOLEAN, c \in DownstreamCodes :
                   IF intr
                   THEN /\ Interrupt("launch")
                        /\ UNCHANGED downstreamExit
                   ELSE /\ downstreamExit' = c
                        /\ IF CalledProcessError(c)
                           THEN SysExitStr("Gradio demo exited with error", c)
                           ELSE SysExitInt(0, "")

\* the launcher is started again on the same machine
NewRun ==
    /\ pc = "done"
    /\ run < MaxRuns
    /\ run' = run + 1
    /\ startExe' \in StartInterpreters(platform)
    /\ (startExe' # BasePython(platform)) => venvExists
    /\ venvAtStart' = venvExists
    /\ sys_executable' = startExe'
    /\ torchLoaded' = "none"
    /\ pc' = "start"
    /\ args' = DefaultNamespace
    /\ i' = 0
    /\ launchCmd' = <<>>
    /\ repairCmd' = <<>>
    /\ downstreamExit' = -1
    /\ exitCode' = -1
    /\ diag' = NoDiag
    /\ interruptedAt' = "none"
    /\ log' = <<>>
    /\ execMismatch' = FALSE
    /\ UNCHANGED <<machine, sys_argv, startArgv>>

Next ==
    \/ main_guard
    \/ create_venv_if_needed
    \/ relaunch
    \/ check_nvidia_gpu_early
    \/ upgrade_pip
    \/ ensure_python_version
    \/ main_parse_args
    \/ ensure_torch_with_cuda
    \/ verify_torch
    \/ countdown
    \/ install_requirements
    \/ check_ffmpeg
    \/ launch_demo
    \/ NewRun

Spec == Init /\ [][Next]_vars

TypeOK ==
    /\ platform \in Platforms
    /\ torchDisk \in AcceleratorState
    /\ torchLoaded \in AcceleratorState \cup {"none"}
    /\ run \in 1..MaxRuns
    /\ i \in 0..CountdownStart

\* ---- properties ----
\* the positions of main() after the relaunch block
PipelinePcs ==
    {"check_gpu", "upgrade_pip", "check_version", "parse_args", "ensure_torch",
     "verify_torch", "countdown", "install_requirements", "check_ffmpeg",
     "launch"}

\* what the steps after the relaunch block write to the log
PipelineEvents ==
    {"smi_warning", "sleep", "pip_upgrade", "pip_upgrade_warning",
     "version_error", "probe_absent", "probe_no_accel", "probe_accelerated",
     "import_error", "manifest_absent", "chdir_failed", "repair_install", "repair_install_failed", "cuda_warning", "countdown",
     "torch_verified", "manifest_install", "manifest_install_failed",
     "manifest_warning", "requirements_done", "ffmpeg_warning", "launch"}

Execs == Count(log, "execv")
interrupted == interruptedAt # "none"
LastEvent == IF log = <<>> THEN "" ELSE log[Len(log)]
Creations == Count(log, "venv_create")

\* C1: no step after the relaunch block runs in a process outside the
\* environment, and app.py is spawned only after the backend was verified and
\* then install_requirements returned, in that order.
C1_GatedSequence ==
    /\ pc \in PipelinePcs => Bootstrapped
    /\ \A k \in DOMAIN log :
         /\ log[k] \in PipelineEvents => Bootstrapped
         /\ log[k] = "requirements_done" =>
               \E a \in 1..(k - 1) : log[a] = "torch_verified"
         /\ log[k] = "launch" =>
               \E a \in 1..(k - 1), b \in 1..(k - 1) :
                   a < b /\ log[a] = "torch_verified"
                         /\ log[b] = "requirements_done"

C1_Witness ==
    /\ pc = "done"
    /\ Execs = 1
    /\ log[Len(log)] = "launch"
    /\ downstreamExit = 0

\* C2: as long as every replaced process reports the target path, the guard
\* of the new process is false and at most one replacement is performed.
C2_ExactlyOnceRelaunch ==
    ~execMismatch =>
        /\ Execs <= 1
        /\ (Execs = 1 /\ pc = "start") =>
               ~NeedsRelaunch(platform, sys_executable)
        /\ Execs = 1 => pc \notin {"create_venv", "relaunch"}

C2_Witness ==
    /\ Execs = 1
    /\ ~execMismatch
    /\ pc = "check_gpu"

\* C3 as stated: a second run against an existing environment of the right
\* version performs no creation and no process replacement.
C3_IdempotenceAsStated ==
    (run = 2 /\ venvAtStart /\ venvIs311) => (Creations = 0 /\ Execs = 0)

\* C3 amended: such a second run performs no creation; it performs no
\* replacement when it is started with the environment's interpreter, and it
\* does not get past the relaunch block without a replacement otherwise.
C3_Idempotence ==
    (run = 2 /\ venvAtStart /\ venvIs311) =>
        /\ Creations = 0
        /\ InVenvAs(platform, startExe) => Execs = 0
        /\ (~InVenvAs(platform, startExe) /\ pc \in PipelinePcs) => Execs >= 1

C3_Witness ==
    /\ run = 2
    /\ venvAtStart
    /\ venvIs311
    /\ pc = "check_gpu"
    /\ ~InVenvAs(platform, startExe)
    /\ Creations = 0
    /\ Execs = 1

\* the command the claim describes: a flag for every option that is set
ExpectedCmd(exe, a) ==
    <<exe, "app.py">>
    \o (IF a.port.set THEN <<"--port", str(a.port.val)>> ELSE <<>>)
    \o (IF a.device.set THEN <<"--device", a.device.val>> ELSE <<>>)
    \o (IF a.sam_model_type.set
        THEN <<"--sam_model_type", a.sam_model_type.val>> ELSE <<>>)
    \o (IF a.mask_save THEN <<"--mask_save">> ELSE <<>>)

\* C4: the command of the downstream process is the program followed by
\* --port n exactly when port is set, --device d exactly when device is set,
\* --sam_model_type t exactly when it is set and --mask_save exactly when
\* mask_save is true, in this order and with nothing else.
C4_ArgumentTranslation ==
    launchCmd # <<>> => launchCmd = ExpectedCmd(sys_executable, args)

\* C5: an interrupt raised in the countdown or in the wait for app.py ends
\* the launcher with exit code 0, and nothing runs after the interrupted call.
C5_GracefulInterrupt ==
    interruptedAt \in {"countdown", "launch"} =>
        /\ pc = "done"
        /\ exitCode = 0
        /\ LastEvent = interruptedAt

C5_Witness ==
    /\ interruptedAt = "countdown"
    /\ pc = "done"
    /\ i = 3

\* C6: an interrupt raised in any sleep or any subprocess wait ends the
\* launcher with exit code 0.
C6_UniformInterrupt ==
    interrupted => (pc = "done" /\ exitCode = 0)

\* C7: when app.py returns a nonzero code c, the launcher ends with a nonzero
\* exit code and a message that carries c.
C7_DownstreamFailurePropagation ==
    downstreamExit > 0 =>
        /\ pc = "done"
        /\ exitCode # 0
        /\ diag.kind = "Gradio demo exited with error"
        /\ diag.code = downstreamExit

C7_Witness ==
    /\ pc = "done"
    /\ downstreamExit = 3
    /\ diag.code = 3

\* C8 as stated: the launcher's exit code is the nonzero code of app.py.
C8_VerbatimExitCode ==
    downstreamExit > 0 => exitCode = downstreamExit

\* C8 amended: whatever nonzero code app.py returns, the launcher's exit code
\* is 1; the code of app.py appears in the message only.
C8_ExitCodeOne ==
    downstreamExit > 0 => (pc = "done" /\ exitCode = 1)

C8_Witness ==
    /\ downstreamExit = 3
    /\ exitCode = 1

\* C9 as stated: exit code 0 only if app.py was spawned and returned 0 or the
\* user interrupted the run.
C9_ZeroOnlyOnSuccessOrAbort ==
    (pc = "done" /\ exitCode = 0) =>
        \/ (downstreamExit = 0 /\ LastEvent = "launch")
        \/ interrupted

\* C9 amended: exit code 0 only if app.py was spawned and returned 0, or the
\* user interrupted the run, or the command line asks for help (-h, --help).
C9_ZeroExit ==
    (pc = "done" /\ exitCode = 0) =>
        \/ (downstreamExit = 0 /\ LastEvent = "launch")
        \/ interrupted
        \/ /\ parse_args(Tail(sys_argv), DefaultNamespace, FALSE).status = "help"
           /\ Count(log, "launch") = 0

C9_Witness ==
    /\ pc = "done"
    /\ exitCode = 0
    /\ diag.kind = "help"
    /\ ~interrupted

\* what the log holds after a fatal error
FatalEvents ==
    {"python311_not_found", "venv_create_failed", "execv_failed",
     "repair_install_failed", "manifest_install_failed"}

\* C10: each fatal error ends the launcher with exit code 1 and is the last
\* thing that happens: no process replacement follows a provisioning failure
\* and app.py is not spawned.
C10_FatalExitsOne ==
    \A k \in DOMAIN log :
        log[k] \in FatalEvents =>
            /\ k = Len(log)
            /\ pc = "done"
            /\ exitCode = 1
            /\ Count(log, "launch") = 0
            /\ log[k] \in {"python311_not_found", "venv_create_failed"} =>
                  Execs = 0

C10_Witness ==
    /\ pc = "done"
    /\ LastEvent = "venv_create_failed"
    /\ exitCode = 1

Repairs == Count(log, "repair_install")
Ticks == Count(log, "countdown")

\* C12: when the import finds the backend with its accelerator, no repair
\* command is run and no countdown is shown; the check after the import
\* passes at once and main goes on to install_requirements.
C12_AcceleratorShortCircuit ==
    \A k \in DOMAIN log :
        log[k] = "probe_accelerated" =>
            /\ Repairs = 0
            /\ repairCmd = <<>>
            /\ Ticks = 0
            /\ Count(log, "cuda_warning") = 0
            /\ IF k = Len(log) THEN pc = "verify_torch"
               ELSE log[k + 1] = "torch_verified"
            /\ (k + 1 = Len(log)) => (pc = "install_requirements" /\ exitCode = -1)

C12_Witness ==
    /\ LastEvent = "torch_verified"
    /\ Count(log, "probe_accelerated") = 1
    /\ platform = "linux"
    /\ pc = "install_requirements"

\* C13: when requirements.txt is absent, no installer command is run, a
\* warning is printed, install_requirements returns and main goes on to its
\* next step.
C13_MissingManifestNonFatal ==
    \A k \in DOMAIN log :
        log[k] = "manifest_absent" =>
            /\ Count(log, "manifest_install") = 0
            /\ k + 1 < Len(log)
            /\ log[k + 1] = "manifest_warning"
            /\ log[k + 2] = "requirements_done"
            /\ diag.kind # "Failed to install dependencies from requirements.txt"
            /\ (k + 2 = Len(log)) =>
                  (pc \in {"check_ffmpeg", "launch"} /\ exitCode = -1)

C13_Witness ==
    /\ Count(log, "manifest_absent") = 1
    /\ LastEvent = "launch"
    /\ downstreamExit = 0

\* C14: with the directory present at the start nothing is looked up and
\* nothing is created; the creation command, the repair install, the
\* requirements install and app.py each run at most once in an invocation,
\* and nothing follows a failed creation.
C14_SingleProvisioning ==
    /\ venvAtStart =>
          /\ Count(log, "find_python311") = 0
          /\ Count(log, "python311_not_found") = 0
          /\ Creations = 0
    /\ Creations <= 1
    /\ Repairs <= 1
    /\ Count(log, "manifest_install") <= 1
    /\ Count(log, "launch") <= 1
    /\ \A k \in DOMAIN log : log[k] = "venv_create_failed" => k = Len(log)

C14_Witness ==
    /\ venvAtStart
    /\ ~venvIs311
    /\ log = <<"execv">>
    /\ pc = "check_gpu"

\* C15: the countdown runs exactly when the check after the import finds no
\* accelerator on a platform other than macOS; it has 5 iterations, and when
\* none of them is interrupted main goes on to install_requirements.
C15_DegradedMode ==
    /\ Ticks > 0 =>
          /\ platform # "darwin"
          /\ torchLoaded \in {"PresentNoAccel"}
          /\ Count(log, "cuda_warning") = 1
    /\ pc = "countdown" => (i >= 1 /\ i + Ticks = 5)
    /\ \A k \in DOMAIN log :
          log[k] = "torch_verified" =>
              /\ (platform # "darwin" /\ torchLoaded # "PresentAccelerated") =>
                    /\ Ticks = 5
                    /\ k > 6
                    /\ log[k - 6] = "cuda_warning"
                    /\ \A j \in (k - 5)..(k - 1) : log[j] = "countdown"
              /\ (k = Len(log)) =>
                    (pc = "install_requirements" /\ exitCode = -1)

C15_Witness ==
    /\ Ticks = 5
    /\ Count(log, "manifest_install") = 1
    /\ LastEvent = "launch"
    /\ downstreamExit = 0

\* C16: on macOS a backend that imports is accepted without repair and
\* without countdown, a repair is run only when the import fails, and its
\* command has no --index-url; on the other platforms the repair command
\* ends with the CUDA index.
C16_ExemptPlatform ==
    /\ (Repairs > 0) = (repairCmd # <<>>)
    /\ platform = "darwin" =>
          /\ Ticks = 0
          /\ Count(log, "cuda_warning") = 0
          /\ Repairs > 0 => Count(log, "probe_absent") = 1
          /\ \A j \in DOMAIN repairCmd : repairCmd[j] # "--index-url"
          /\ \A k \in DOMAIN log :
                log[k] \in {"probe_no_accel", "probe_accelerated"} =>
                    /\ Repairs = 0
                    /\ k < Len(log) => log[k + 1] = "torch_verified"
    /\ (platform # "darwin" /\ repairCmd # <<>>) =>
          \E j \in DOMAIN repairCmd :
              /\ j + 1 = Len(repairCmd)
              /\ repairCmd[j] = "--index-url"
              /\ repairCmd[j + 1] = "https://download.pytorch.org/whl/cu121"

C16_Witness ==
    /\ platform = "darwin"
    /\ Repairs = 1
    /\ torchLoaded = "PresentNoAccel"
    /\ LastEvent = "torch_verified"

\* the positions of main() after parser.parse_args() returned
ParsedPcs ==
    {"ensure_torch", "verify_torch", "countdown", "install_requirements",
     "check_ffmpeg", "launch"}

\* C17: the replaced process runs with the program and the arguments the
\* invocation was started with, in the same order, and the namespace parsed
\* inside the environment is the one that command line denotes.
C17_InvocationPreserved ==
    /\ sys_argv = startArgv
    /\ Execs > 0 =>
          sys_executable \in {get_venv_python(platform), BasePython(platform)}
    /\ (Execs > 0 /\ ~execMismatch) => sys_executable = get_venv_python(platform)
    /\ (pc \in ParsedPcs \/ Count(log, "launch") > 0) =>
          LET r == parse_args(Tail(startArgv), DefaultNamespace, FALSE)
          IN  r.status = "ok" /\ args = r.ns

C17_Witness ==
    /\ Execs = 1
    /\ pc = "ensure_torch"
    /\ args.port = [set |-> TRUE, val |-> 7860]
    /\ args.device = [set |-> TRUE, val |-> "cuda"]
    /\ args.mask_save

\* C18: the interpreter version is checked before the backend is imported or
\* installed, before the requirements are installed and before app.py is
\* spawned; with another version than 3.11 the launcher ends with exit code 1
\* there, also when the environment existed and the relaunch succeeded.
C18_VersionGate ==
    /\ \A k \in DOMAIN log :
          log[k] = "version_error" =>
              /\ k = Len(log)
              /\ pc = "done"
              /\ exitCode = 1
              /\ ~venvIs311
    /\ (Bootstrapped /\ ~venvIs311) =>
          /\ pc \notin {"parse_args"} \cup ParsedPcs
          /\ \A k \in DOMAIN log :
                log[k] \notin {"probe_absent", "probe_no_accel",
                               "probe_accelerated", "repair_install",
                               "manifest_install", "launch"}
          /\ (pc = "done" /\ ~interrupted) => LastEvent = "version_error"

C18_Witness ==
    /\ venvAtStart
    /\ ~venvIs311
    /\ Execs = 1
    /\ LastEvent = "version_error"
    /\ exitCode = 1

\* C19: when torch still cannot be imported after ensure_torch_with_cuda
\* returned from a repair install that reported success, the launcher ends
\* with a nonzero exit code and a message; the requirements are not installed
\* and app.py is not spawned.
C19_ImportFailureAfterRepair ==
    /\ \A k \in DOMAIN log :
          log[k] = "import_error" =>
              /\ k = Len(log)
              /\ k > 1
              /\ log[k - 1] = "repair_install"
              /\ pc = "done"
              /\ exitCode # 0
              /\ diag.kind = "PyTorch could not be imported after installation"
              /\ Count(log, "manifest_install") = 0
              /\ Count(log, "launch") = 0
    /\ (pc \in {"countdown", "install_requirements", "check_ffmpeg", "launch"}
          \/ Count(log, "torch_verified") > 0) => torchLoaded # "none"

C19_Witness ==
    /\ LastEvent = "import_error"
    /\ torchDisk = "Absent"
    /\ exitCode = 1

====
